---- MODULE Spec2Model ----
(***************************************************************************)
(* MatrixShell: the coalesced-hashing table of HashTable.c / HashTable.h.  *)
(* The table is a fixed array of HashSpace cells; HT_add places a pair in  *)
(* its home cell or appends it to the chain that starts there, taking the  *)
(* cell named by nextLink.                                                 *)
(***************************************************************************)
EXTENDS Integers, Naturals, Sequences, FiniteSets, TLC

(***************************************************************************)
(* Bounds of the model.                                                    *)
(***************************************************************************)
MaxCap == 3
NumKeys == 4
MaxOverrun == 1
MaxAbs == 6

(***************************************************************************)
(* Program constants.                                                      *)
(***************************************************************************)
VT_MATRIX == 0
VT_RATIONAL == 1
SizeofMatrix == 4
SizeofRational == 8

\* A pointer is <<>> when null and <<block>> when it points to block.
NULL == <<>>
Ptr(block) == <<block>>
Deref(p) == p[1]
Junk == Ptr(<<-1>>)
OK == "0"
FAIL_TABLE_FULL == "FAIL_TABLE_FULL"
ERR_NEXT_LINK_OUT_OF_BOUNDS == "ERR_NEXT_LINK_OUT_OF_BOUNDS"
NoRet == "none"

ValueTypes == {VT_MATRIX, VT_RATIONAL}

(***************************************************************************)
(* 32-bit unsigned words, held as <<high 16 bits, low 16 bits>>.           *)
(***************************************************************************)
Half == 65536

RECURSIVE Pow2(_)
Pow2(k) == IF k = 0 THEN 1 ELSE 2 * Pow2(k - 1)

RECURSIVE Xor16(_, _)
Xor16(a, b) ==
  IF a = 0 THEN b
  ELSE IF b = 0 THEN a
  ELSE (((a % 2) + (b % 2)) % 2) + (2 * Xor16(a \div 2, b \div 2))

U32(n) == <<n \div Half, n % Half>>

Add32(a, b) ==
  LET lo == a[2] + b[2]
  IN  <<(a[1] + b[1] + (lo \div Half)) % Half, lo % Half>>

Shl32(a, k) ==
  <<((a[1] * Pow2(k)) % Half) + (a[2] \div Pow2(16 - k)), (a[2] * Pow2(k)) % Half>>

Shr32(a, k) ==
  <<a[1] \div Pow2(k), (a[2] \div Pow2(k)) + (a[1] % Pow2(k)) * Pow2(16 - k)>>

Xor32(a, b) == <<Xor16(a[1], b[1]), Xor16(a[2], b[2])>>

Mod32(a, n) == (((a[1] % n) * (Half % n)) + (a[2] % n)) % n

(***************************************************************************)
(* The hasher.                                                             *)
(***************************************************************************)
JenkinsStep(h, c) ==
  LET h1 == Add32(h, U32(c))
      h2 == Add32(h1, Shl32(h1, 10))
  IN  Xor32(h2, Shr32(h2, 6))

RECURSIVE JenkinsLoop(_, _, _, _)
JenkinsLoop(key, len, i, h) ==
  IF i > len THEN h ELSE JenkinsLoop(key, len, i + 1, JenkinsStep(h, key[i]))

jenkins_one_at_a_time_hash_value(key, len) ==
  LET h0 == JenkinsLoop(key, len, 1, U32(0))
      h1 == Add32(h0, Shl32(h0, 3))
      h2 == Xor32(h1, Shr32(h1, 11))
  IN  Add32(h2, Shl32(h2, 15))

HT_hashValue(key) == jenkins_one_at_a_time_hash_value(key, Len(key))

(***************************************************************************)
(* Inputs: keys "a", "b", ... as character codes; payload blocks of the    *)
(* size of their type.                                                     *)
(***************************************************************************)
Keys == {<<96 + i>> : i \in 1..NumKeys}

HashOf == [k \in Keys |-> HT_hashValue(k)]

HT_typeSize(valueType) ==
  IF valueType = VT_MATRIX THEN SizeofMatrix ELSE SizeofRational

\* One block per type, filled with a byte value of its own.
PayloadFill(valueType) == IF valueType = VT_RATIONAL THEN {2} ELSE {1}

Payloads(valueType) ==
  {[i \in 1..HT_typeSize(valueType) |-> b] : b \in PayloadFill(valueType)}

(***************************************************************************)
(* Copies.  malloc(0) yields a null pointer or an empty block.             *)
(***************************************************************************)
HT_copyString(str) == Ptr([i \in 1..Len(str) |-> str[i]])

HT_copyValue(value, size) ==
  IF size = 0 THEN {NULL, Ptr(<<>>)} ELSE {Ptr(SubSeq(value, 1, size))}

(***************************************************************************)
(* State.  state is "none" before HT_newTable, "live" after it and "freed" *)
(* after HT_freeTable; the table's members follow; ret is the last HT_add  *)
(* call's return code; oob is the set of cell indices outside the array    *)
(* that the last call touched; crashed says the process died inside that   *)
(* call.  heap counts the key and value blocks that HT_copyString and      *)
(* HT_copyValue have allocated and free has not yet released; wild counts  *)
(* the calls of free on a pointer that malloc never returned.              *)
(***************************************************************************)
VARIABLES state, numItems, maxNumItems, nextLink, pairs, ret, oob, crashed,
          heap, wild

(***************************************************************************)
(* State of a call of R_GCD or R_reduce (Rational.c).  top and bottom are  *)
(* the numbers the caller starts from; r is the Rational that R_reduce     *)
(* works on; larger and smaller are the locals of R_GCD and gcd is what    *)
(* R_GCD returned.  rpc is the position: "off" when no call is modelled,   *)
(* "start" before the call, "loop" at the head of the while of line 90,    *)
(* "returned" when R_GCD has returned, "done" when R_reduce has returned.   *)
(* caller is the function that was called: "R_GCD" or "R_reduce".          *)
(***************************************************************************)
VARIABLES rpc, caller, top, bottom, r, larger, smaller, gcd

tableVars == <<state, numItems, maxNumItems, nextLink, pairs, ret, oob, crashed,
               heap, wild>>

rationalVars == <<rpc, caller, top, bottom, r, larger, smaller, gcd>>

vars == <<state, numItems, maxNumItems, nextLink, pairs, ret, oob, crashed,
          heap, wild, rpc, caller, top, bottom, r, larger, smaller, gcd>>

Table == [pairs |-> pairs, numItems |-> numItems,
          maxNumItems |-> maxNumItems, nextLink |-> nextLink]

(***************************************************************************)
(* What malloc leaves in the members HT_newTable does not set.             *)
(***************************************************************************)
\* value and hasLink are read before they are written (HT_freeTable reads
\* value, the walk reads hasLink), so every content counts; valueType and
\* linkedIndex are always written before they are read, so one stands for all.
GarbagePtr == {NULL, Junk}
GarbageInt == {-1}

HashSpace ==
  [key : {NULL}, value : GarbagePtr, valueType : GarbageInt,
   linkedIndex : GarbageInt, hasLink : BOOLEAN]

\* No table yet.
NoTable ==
  /\ state = "none"
  /\ numItems = 0
  /\ maxNumItems = 0
  /\ nextLink = 0
  /\ pairs = <<>>
  /\ ret = NoRet
  /\ oob = {}
  /\ crashed = FALSE
  /\ heap = 0
  /\ wild = 0

\* No call of the Rational functions.
NoRational ==
  /\ rpc = "off"
  /\ caller = "none"
  /\ top = 0
  /\ bottom = 0
  /\ r = [top |-> 0, bottom |-> 0]
  /\ larger = 0
  /\ smaller = 0
  /\ gcd = 0

Init == NoTable /\ NoRational

\* HT_newTable with the loop of line 35 stopping one cell early, so that the
\* last cell keeps whatever key pointer malloc left there.
HT_newTable_SkipLast(n) ==
  /\ state = "none"
  /\ state' = "live"
  /\ numItems' = 0
  /\ maxNumItems' = n
  /\ nextLink' = 0
  /\ pairs' \in {[i \in 0..(n - 1) |-> IF i = n - 1 THEN [q[i] EXCEPT !.key = Junk] ELSE q[i]] :
                  q \in [0..(n - 1) -> HashSpace]}
  /\ ret' = NoRet
  /\ UNCHANGED <<oob, crashed, heap, wild>>
  /\ UNCHANGED rationalVars

HT_newTable(n) ==
  /\ state = "none"
  /\ state' = "live"
  /\ numItems' = 0
  /\ maxNumItems' = n
  /\ nextLink' = 0
  /\ pairs' \in [0..(n - 1) -> HashSpace]
  /\ ret' = NoRet
  /\ UNCHANGED <<oob, crashed, heap, wild>>
  /\ UNCHANGED rationalVars

(***************************************************************************)
(* HT_add, by the path it takes.  Each operator gives the set of outcomes  *)
(* [pairs, numItems, nextLink, ret, oob, crashed, heap] the path can end   *)
(* in; heap is the number of blocks the path allocates less the number it  *)
(* frees.                                                                  *)
(***************************************************************************)
Outcome(p, n, nl, rc, o, c, h) ==
  [pairs |-> p, numItems |-> n, nextLink |-> nl, ret |-> rc, oob |-> o,
   crashed |-> c, heap |-> h]

\* The blocks behind a pointer: none behind a null pointer.
Blocks(ptr) == IF ptr = NULL THEN 0 ELSE 1

\* The walk of lines 160-191: from index, compare keys and follow
\* linkedIndex while hasLink is set.  linkedIndex -1 read as an unsigned
\* index is 4294967295, outside the array; it is kept as -1 here.
RECURSIVE ChainWalk(_, _, _, _)
ChainWalk(p, key, index, fuel) ==
  IF index \notin DOMAIN p THEN [kind |-> "oob", index |-> index]
  ELSE IF p[index].key = NULL THEN [kind |-> "nullkey", index |-> index]
  ELSE IF Deref(p[index].key) = key THEN [kind |-> "match", index |-> index]
  ELSE IF p[index].hasLink
       THEN IF fuel = 0 THEN [kind |-> "spin", index |-> index]
            ELSE ChainWalk(p, key, p[index].linkedIndex, fuel - 1)
       ELSE [kind |-> "tail", index |-> index]

\* DirectAdvance with the while of line 144 replaced by a single increment.
DirectAdvance_NoScan(p, nl, max) ==
  IF nl + 1 >= max
  THEN [nextLink |-> nl + 1, ret |-> ERR_NEXT_LINK_OUT_OF_BOUNDS]
  ELSE [nextLink |-> nl + 1, ret |-> OK]

\* Lines 142-153: the scan after a placement at nextLink.
RECURSIVE DirectAdvance(_, _, _)
DirectAdvance(p, nl, max) ==
  IF p[nl].key # NULL
  THEN IF nl + 1 >= max
       THEN [nextLink |-> nl + 1, ret |-> ERR_NEXT_LINK_OUT_OF_BOUNDS]
       ELSE DirectAdvance(p, nl + 1, max)
  ELSE [nextLink |-> nl, ret |-> OK]

\* LinkAdvance stepping down instead of up (--nextLink).
LinkAdvance_Downward(p, nl, max) ==
  {[nextLink |-> nl - 1, oob |-> {nl - 1} \ DOMAIN p, crashed |-> FALSE]}

\* Line 208: while (pairs[++nextLink].key) {}.  A read of pairs[max] or
\* beyond finds a null or a non-null pointer, or faults.
RECURSIVE LinkAdvance(_, _, _)
LinkAdvance(p, nl, max) ==
  IF nl + 1 < max
  THEN IF p[nl + 1].key # NULL
       THEN LinkAdvance(p, nl + 1, max)
       ELSE {[nextLink |-> nl + 1, oob |-> {}, crashed |-> FALSE]}
  ELSE {[nextLink |-> nl + 1 + j, oob |-> (nl + 1)..(nl + 1 + j), crashed |-> FALSE] :
           j \in 0..MaxOverrun}
       \cup {[nextLink |-> nl + 1, oob |-> {nl + 1}, crashed |-> TRUE]}

\* Lines 131-155.
DirectPlace(t, index, key, value, valueType) ==
  { LET p1 == [t.pairs EXCEPT ![index] =
                 [key |-> HT_copyString(key), value |-> nv, valueType |-> valueType,
                  linkedIndex |-> 0, hasLink |-> FALSE]]
        s  == IF index = t.nextLink
              THEN DirectAdvance(p1, t.nextLink, t.maxNumItems)
              ELSE [nextLink |-> t.nextLink, ret |-> OK]
    IN  Outcome(p1, t.numItems, s.nextLink, s.ret, {}, FALSE, 1 + Blocks(nv)) :
    nv \in HT_copyValue(value, valueType) }

\* Lines 166-173 and 178: numItems-- when the old value is non-null, then
\* numItems++ (unsigned, so 0 - 1 + 1 is 0 again).
CountAfterUpdate(n, oldValue) == IF oldValue # NULL THEN n ELSE n + 1

\* Overwrite treating the matching cell like a fresh placement: it also
\* stores the key again and clears the cell's link members.
Overwrite_Replace(t, index, value, valueType) ==
  { Outcome([t.pairs EXCEPT ![index] =
               [key |-> @.key, value |-> nv, valueType |-> valueType,
                linkedIndex |-> -1, hasLink |-> FALSE]],
            CountAfterUpdate(t.numItems, t.pairs[index].value),
            t.nextLink, OK, {}, FALSE,
            Blocks(nv) - Blocks(t.pairs[index].value)) :
    nv \in HT_copyValue(value, HT_typeSize(valueType)) }

\* Lines 164-180.
Overwrite(t, index, value, valueType) ==
  { Outcome([t.pairs EXCEPT ![index].value = nv, ![index].valueType = valueType],
            CountAfterUpdate(t.numItems, t.pairs[index].value),
            t.nextLink, OK, {}, FALSE,
            Blocks(nv) - Blocks(t.pairs[index].value)) :
    nv \in HT_copyValue(value, HT_typeSize(valueType)) }

\* Lines 198-204: what the append writes.  A tail outside the array takes
\* the linkedIndex write with it.
LinkPairs(p, tail, nl, key, nv, valueType) ==
  LET p1 == IF tail \in DOMAIN p THEN [p EXCEPT ![tail].linkedIndex = nl] ELSE p
  IN  [p1 EXCEPT ![nl] = [key |-> HT_copyString(key), value |-> nv,
                          valueType |-> valueType, linkedIndex |-> -1,
                          hasLink |-> p[nl].hasLink]]

\* Lines 194-216.
LinkNew(t, tail, walked, key, value, valueType) ==
  IF t.nextLink < t.maxNumItems
  THEN UNION { LET p2 == LinkPairs(t.pairs, tail, t.nextLink, key, nv, valueType)
               IN  { Outcome(p2, t.numItems + 1, s.nextLink,
                             IF s.crashed THEN NoRet ELSE OK,
                             walked \cup s.oob, s.crashed, 1 + Blocks(nv)) :
                     s \in LinkAdvance(p2, t.nextLink, t.maxNumItems) } :
               nv \in HT_copyValue(value, HT_typeSize(valueType)) }
  ELSE {Outcome(t.pairs, t.numItems, t.nextLink, ERR_NEXT_LINK_OUT_OF_BOUNDS,
                walked, FALSE, 0)}

\* The walk left the array (or met a null key, or never ends): the read
\* faults, or finds a cell-shaped piece of memory with another key and no
\* link and goes on to append.
Stray(t, w, key, value, valueType) ==
  {Outcome(t.pairs, t.numItems, t.nextLink, NoRet, {w.index} \ DOMAIN t.pairs, TRUE, 0)}
  \cup (IF w.kind = "oob"
        THEN LinkNew(t, w.index, {w.index}, key, value, valueType)
        ELSE {})

\* Lines 121-217.
AddOutcomes(t, key, value, valueType) ==
  IF t.numItems >= t.maxNumItems
  THEN {Outcome(t.pairs, t.numItems, t.nextLink, FAIL_TABLE_FULL, {}, FALSE, 0)}
  ELSE LET index == Mod32(HashOf[key], t.maxNumItems)
       IN  IF t.pairs[index].key = NULL
           THEN DirectPlace(t, index, key, value, valueType)
           ELSE LET w == ChainWalk(t.pairs, key, index, t.maxNumItems)
                IN  CASE w.kind = "match" -> Overwrite(t, w.index, value, valueType)
                      [] w.kind = "tail"  -> LinkNew(t, w.index, {}, key, value, valueType)
                      [] OTHER            -> Stray(t, w, key, value, valueType)

HT_add(key, value, valueType) ==
  /\ state = "live"
  /\ ~crashed
  /\ \E o \in AddOutcomes(Table, key, value, valueType) :
        /\ pairs' = o.pairs
        /\ numItems' = o.numItems
        /\ nextLink' = o.nextLink
        /\ ret' = o.ret
        /\ oob' = o.oob
        /\ crashed' = o.crashed
        /\ heap' = heap + o.heap
  /\ UNCHANGED <<state, maxNumItems, wild>>
  /\ UNCHANGED rationalVars

\* Lines 53-63: free every non-null key and every non-null value.  The value
\* of a cell that was never occupied is what malloc left there; free of
\* such a pointer is counted in wild, and it returns or kills the process.
RECURSIVE FreeCells(_, _, _, _, _)
FreeCells(p, i, max, h, w) ==
  IF i >= max THEN {[heap |-> h, wild |-> w, crashed |-> FALSE]}
  ELSE LET h1 == h - Blocks(p[i].key)
       IN  IF p[i].value = NULL THEN FreeCells(p, i + 1, max, h1, w)
           ELSE IF p[i].key = NULL
                THEN {[heap |-> h1, wild |-> w + 1, crashed |-> TRUE]}
                     \cup FreeCells(p, i + 1, max, h1, w + 1)
                ELSE FreeCells(p, i + 1, max, h1 - 1, w)

\* Lines 50-68.  The array and the table are gone afterwards.
HT_freeTable ==
  /\ state = "live"
  /\ ~crashed
  /\ state' = "freed"
  /\ \E o \in FreeCells(pairs, 0, maxNumItems, heap, wild) :
        /\ heap' = o.heap
        /\ wild' = o.wild
        /\ crashed' = o.crashed
  /\ pairs' = <<>>
  /\ numItems' = 0
  /\ maxNumItems' = 0
  /\ nextLink' = 0
  /\ ret' = NoRet
  /\ oob' = {}
  /\ UNCHANGED rationalVars

Next ==
  \/ \E n \in 0..MaxCap : HT_newTable(n)
  \/ \E key \in Keys, valueType \in ValueTypes :
        \E value \in Payloads(valueType) : HT_add(key, value, valueType)
  \/ HT_freeTable

Spec == Init /\ [][Next]_vars

(***************************************************************************)
(* Rational.c: R_GCD and R_reduce.  The numbers are far inside the range   *)
(* of int32_t, so the int64_t parameters of R_GCD and the int32_t gcd of   *)
(* R_reduce hold them unchanged.                                           *)
(***************************************************************************)
Range == (0 - MaxAbs)..MaxAbs

\* C's / on integers truncates toward zero.
CDiv(a, b) ==
  IF (a >= 0) = (b > 0) THEN (IF a >= 0 THEN a ELSE 0 - a) \div (IF b > 0 THEN b ELSE 0 - b)
  ELSE 0 - ((IF a >= 0 THEN a ELSE 0 - a) \div (IF b > 0 THEN b ELSE 0 - b))

\* Lines 55-73 of R_GCD: <<v>> when it returns v before the loop, <<>> when
\* it goes on to line 75.
EarlyReturn(t, b) ==
  IF t < 0 \/ b < 0 THEN <<-1>>
  ELSE IF t = 0 /\ b # 0 THEN <<b>>
  ELSE IF b = 0 /\ t # 0 THEN <<t>>
  ELSE IF t = 0 /\ b = 0 THEN <<-2>>
  ELSE <<>>

\* Lines 75-85: larger and smaller at the first test of the while.
Ordered(t, b) == IF t > b THEN <<t, b>> ELSE <<b, t>>

\* Line 90.
LoopCond(l, s) == l > 0 /\ s > 0

\* Lines 92-95: one pass of the body, as <<larger, smaller>>.
EuclidStep(l, s) == <<s, l % s>>

\* Line 97 with the first operand of the swap returned instead.
EuclidResult_Smaller(l, s) == s

\* Line 97.
EuclidResult(l, s) == l

\* The body of R_GCD from line 55 on, entered with top = t and bottom = b.
R_GCD_enter(t, b) ==
  IF EarlyReturn(t, b) = <<>>
  THEN /\ larger' = Ordered(t, b)[1]
       /\ smaller' = Ordered(t, b)[2]
       /\ rpc' = "loop"
       /\ UNCHANGED gcd
  ELSE /\ gcd' = EarlyReturn(t, b)[1]
       /\ rpc' = "returned"
       /\ UNCHANGED <<larger, smaller>>

\* A caller calls R_GCD(top, bottom).
R_GCD ==
  /\ rpc = "start"
  /\ caller' = "R_GCD"
  /\ R_GCD_enter(top, bottom)
  /\ UNCHANGED <<top, bottom, r>>
  /\ UNCHANGED tableVars

\* One pass of the while of lines 90-96.
R_GCD_loop ==
  /\ rpc = "loop"
  /\ LoopCond(larger, smaller)
  /\ larger' = EuclidStep(larger, smaller)[1]
  /\ smaller' = EuclidStep(larger, smaller)[2]
  /\ UNCHANGED <<rpc, caller, top, bottom, r, gcd>>
  /\ UNCHANGED tableVars

\* The while ends and line 97 returns.
R_GCD_return ==
  /\ rpc = "loop"
  /\ ~LoopCond(larger, smaller)
  /\ gcd' = EuclidResult(larger, smaller)
  /\ rpc' = "returned"
  /\ UNCHANGED <<caller, top, bottom, r, larger, smaller>>
  /\ UNCHANGED tableVars

\* Lines 110-114 of R_reduce.
Normalised(q) ==
  IF q.bottom < 0 THEN [top |-> q.top * (-1), bottom |-> q.bottom * (-1)] ELSE q

\* Lines 118-122 of R_reduce.
Divided(q, g) ==
  IF g > 1 THEN [top |-> CDiv(q.top, g), bottom |-> CDiv(q.bottom, g)] ELSE q

\* A caller calls R_reduce(&r): lines 107-116, up to the call of R_GCD.
R_reduce ==
  /\ rpc = "start"
  /\ caller' = "R_reduce"
  /\ r' = Normalised(r)
  /\ R_GCD_enter(Normalised(r).top, Normalised(r).bottom)
  /\ UNCHANGED <<top, bottom>>
  /\ UNCHANGED tableVars

\* R_GCD has returned to R_reduce: lines 116-123.
R_reduce_return ==
  /\ rpc = "returned"
  /\ caller = "R_reduce"
  /\ r' = Divided(r, gcd)
  /\ rpc' = "done"
  /\ UNCHANGED <<caller, top, bottom, larger, smaller, gcd>>
  /\ UNCHANGED tableVars

\* The caller holds a Rational top/bottom and has not called yet.
InitR ==
  /\ NoTable
  /\ rpc = "start"
  /\ caller = "none"
  /\ top \in Range
  /\ bottom \in Range
  /\ r = [top |-> top, bottom |-> bottom]
  /\ larger = 0
  /\ smaller = 0
  /\ gcd = 0

NextR ==
  \/ R_GCD
  \/ R_GCD_loop
  \/ R_GCD_return
  \/ R_reduce
  \/ R_reduce_return

\* The functions are sequential code on one thread: a call that can take its
\* next step takes it.
SpecR == InitR /\ [][NextR]_vars /\ WF_vars(NextR)

\* R_GCD as a function of its arguments: the loop of lines 90-96 run to its
\* end from <<larger, smaller>>.
RECURSIVE EuclidLoop(_, _)
EuclidLoop(l, s) ==
  IF LoopCond(l, s)
  THEN EuclidLoop(EuclidStep(l, s)[1], EuclidStep(l, s)[2])
  ELSE EuclidResult(l, s)

R_GCD_value(t, b) ==
  IF EarlyReturn(t, b) = <<>>
  THEN EuclidLoop(Ordered(t, b)[1], Ordered(t, b)[2])
  ELSE EarlyReturn(t, b)[1]

(***************************************************************************)
(* Lookup (spec 4.4): walk from the home cell along links, comparing keys. *)
(***************************************************************************)
NotFound == [found |-> FALSE, value |-> NULL, valueType |-> -1]

HT_get(p, max, key) ==
  IF max = 0 THEN NotFound
  ELSE LET home == Mod32(HashOf[key], max)
       IN  IF p[home].key = NULL THEN NotFound
           ELSE LET w == ChainWalk(p, key, home, max)
                IN  IF w.kind = "match"
                    THEN [found |-> TRUE, value |-> p[w.index].value,
                          valueType |-> p[w.index].valueType]
                    ELSE NotFound

(***************************************************************************)
(* Vocabulary of the properties.                                           *)
(***************************************************************************)
Home(key) == Mod32(HashOf[key], maxNumItems)

Occupied(p) == {i \in DOMAIN p : p[i].key # NULL}

Holds(p, key) == \E i \in Occupied(p) : Deref(p[i].key) = key

\* The table exists and no call is in progress or has died.
BetweenCalls == state = "live" /\ ~crashed

\* A step of HT_add: the only steps that start between calls.
AddStep == BetweenCalls /\ state' = "live"

Errors == {FAIL_TABLE_FULL, ERR_NEXT_LINK_OUT_OF_BOUNDS}

\* The cells visited from cell i by following links, as a sequence; a link
\* is present when hasLink is set and then leads to linkedIndex.
RECURSIVE LinkPath(_, _, _)
LinkPath(p, i, fuel) ==
  IF i \notin DOMAIN p \/ fuel = 0 THEN <<i>>
  ELSE IF p[i].hasLink THEN <<i>> \o LinkPath(p, p[i].linkedIndex, fuel - 1)
  ELSE <<i>>

(***************************************************************************)
(* C1: after any sequence of HT_add calls no two occupied cells hold the   *)
(* same key.                                                               *)
(***************************************************************************)
C1_KeysUnique ==
  BetweenCalls =>
    \A i, j \in Occupied(pairs) : i # j => pairs[i].key # pairs[j].key

(***************************************************************************)
(* C2: between calls numItems is the number of occupied cells, and so lies *)
(* in 0..maxNumItems.                                                      *)
(***************************************************************************)
C2_CountIsOccupied ==
  BetweenCalls =>
    /\ numItems = Cardinality(Occupied(pairs))
    /\ 0 <= numItems /\ numItems <= maxNumItems

(***************************************************************************)
(* C3: while fewer than maxNumItems distinct keys are stored, HT_add of a  *)
(* further distinct key returns 0; once maxNumItems distinct keys are      *)
(* stored, HT_add of one more distinct key returns FAIL_TABLE_FULL.        *)
(***************************************************************************)
DistinctKeysStored(p, n) ==
  /\ Cardinality(Occupied(p)) = n
  /\ \A i, j \in Occupied(p) : i # j => p[i].key # p[j].key

C3_CapacityBound ==
  [][\A key \in Keys, valueType \in ValueTypes : \A value \in Payloads(valueType) :
       (HT_add(key, value, valueType) /\ ~crashed' /\ maxNumItems > 0
          /\ ~Holds(pairs, key)
          /\ \E n \in 0..maxNumItems : DistinctKeysStored(pairs, n))
       => IF Cardinality(Occupied(pairs)) < maxNumItems
          THEN ret' = OK
          ELSE ret' = FAIL_TABLE_FULL]_vars

(***************************************************************************)
(* C4: when HT_add of a key with no entry returns 0, a lookup of that key  *)
(* right afterwards returns the payload that was passed.                   *)
(***************************************************************************)
C4_RoundTrip ==
  [][\A key \in Keys, valueType \in ValueTypes : \A value \in Payloads(valueType) :
       (HT_add(key, value, valueType) /\ ~Holds(pairs, key) /\ ret' = OK)
       => LET g == HT_get(pairs', maxNumItems', key)
          IN  g.found /\ g.value = Ptr(value)]_vars

(***************************************************************************)
(* C5: HT_add of a key that is already stored, in its home cell or in a    *)
(* chain cell, is an update: numItems and the number of occupied cells do  *)
(* not change and a lookup of the key returns the new payload.             *)
(***************************************************************************)
C5_UpdateInPlace ==
  [][\A key \in Keys, valueType \in ValueTypes : \A value \in Payloads(valueType) :
       (HT_add(key, value, valueType) /\ Holds(pairs, key) /\ ret' = OK)
       => /\ numItems' = numItems
          /\ Cardinality(Occupied(pairs')) = Cardinality(Occupied(pairs))
          /\ LET g == HT_get(pairs', maxNumItems', key)
             IN  g.found /\ g.value = Ptr(value)]_vars

(***************************************************************************)
(* C6: two distinct keys with the same home index that are both stored are *)
(* both found by the lookup from that home index, and the walk from it     *)
(* visits no cell twice.                                                   *)
(***************************************************************************)
NoRepeat(seq) == \A m, n \in 1..Len(seq) : m # n => seq[m] # seq[n]

C6_CollidingKeysFound ==
  BetweenCalls =>
    \A k1, k2 \in Keys :
      (k1 # k2 /\ maxNumItems > 0 /\ Home(k1) = Home(k2)
         /\ Holds(pairs, k1) /\ Holds(pairs, k2))
      => /\ HT_get(pairs, maxNumItems, k1).found
         /\ HT_get(pairs, maxNumItems, k2).found
         /\ NoRepeat(LinkPath(pairs, Home(k1), maxNumItems + 1))

(***************************************************************************)
(* C7: from every cell, following links visits only occupied cells inside  *)
(* the array, visits none twice and ends at a cell without a link; an      *)
(* empty cell has no link.                                                 *)
(***************************************************************************)
C7_ChainsWellFormed ==
  BetweenCalls =>
    \A i \in DOMAIN pairs :
      /\ (pairs[i].key = NULL => ~pairs[i].hasLink)
      /\ LET path == LinkPath(pairs, i, maxNumItems + 1)
         IN  /\ NoRepeat(path)
             /\ \A m \in 2..Len(path) : path[m] \in Occupied(pairs)
             /\ path[Len(path)] \in DOMAIN pairs
             /\ ~pairs[path[Len(path)]].hasLink

(***************************************************************************)
(* C8: between calls nextLink is the lowest index of an empty cell, or is  *)
(* at least maxNumItems when no cell is empty.                             *)
(***************************************************************************)
Empty(p) == DOMAIN p \ Occupied(p)

C8_CursorLowestEmpty ==
  BetweenCalls =>
    IF Empty(pairs) = {}
    THEN nextLink >= maxNumItems
    ELSE /\ nextLink \in Empty(pairs)
         /\ \A i \in Empty(pairs) : nextLink <= i

\* A placement in a home cell above the cursor has happened and the cursor
\* has moved on to an empty cell with an occupied cell below it.
C8_Witness ==
  /\ BetweenCalls
  /\ ret = OK
  /\ 0 < nextLink /\ nextLink < maxNumItems
  /\ \E i \in Occupied(pairs) : i > nextLink /\ ~pairs[i].hasLink /\ pairs[i].linkedIndex = 0

(***************************************************************************)
(* C9: nextLink after an HT_add call is never less than before it.         *)
(***************************************************************************)
C9_CursorMonotone ==
  [][AddStep => nextLink' >= nextLink]_vars

\* The cursor has been advanced by a direct placement and then by a chain
\* insert.
C9_Witness ==
  /\ BetweenCalls
  /\ ret = OK
  /\ nextLink >= 2
  /\ \E i \in Occupied(pairs) : pairs[i].linkedIndex = -1

(***************************************************************************)
(* C10: an HT_add that returns FAIL_TABLE_FULL or                          *)
(* ERR_NEXT_LINK_OUT_OF_BOUNDS leaves every cell, numItems and nextLink as *)
(* they were.                                                              *)
(***************************************************************************)
C10_ErrorLeavesTable ==
  [][(AddStep /\ ret' \in Errors)
       => (pairs' = pairs /\ numItems' = numItems /\ nextLink' = nextLink)]_vars

(***************************************************************************)
(* C11: HT_add of a key whose home cell is empty returns 0, also when the  *)
(* placement takes the cursor's cell and the cursor scan runs past the end *)
(* of the array.                                                           *)
(***************************************************************************)
C11_DirectPlacementSucceeds ==
  [][\A key \in Keys, valueType \in ValueTypes : \A value \in Payloads(valueType) :
       (HT_add(key, value, valueType) /\ maxNumItems > 0
          /\ ~Holds(pairs, key) /\ pairs[Home(key)].key = NULL)
       => ret' = OK]_vars

(***************************************************************************)
(* C12: HT_add of a new key whose home cell is occupied appends it at the  *)
(* tail of the chain from its home cell: the last cell of that chain gets  *)
(* a link to the old nextLink, the new pair is stored at the old nextLink  *)
(* without a link, and the links of all other cells stay as they were.     *)
(***************************************************************************)
Last(seq) == seq[Len(seq)]

LinkOf(p, i) == IF p[i].hasLink THEN <<p[i].linkedIndex>> ELSE <<>>

C12_AppendAtTail ==
  [][\A key \in Keys, valueType \in ValueTypes : \A value \in Payloads(valueType) :
       (HT_add(key, value, valueType) /\ maxNumItems > 0 /\ ret' = OK
          /\ ~Holds(pairs, key) /\ pairs[Home(key)].key # NULL)
       => LET tail == Last(LinkPath(pairs, Home(key), maxNumItems + 1))
          IN  /\ tail \in DOMAIN pairs
              /\ LinkOf(pairs', tail) = <<nextLink>>
              /\ nextLink \in DOMAIN pairs
              /\ pairs'[nextLink].key = Ptr(key)
              /\ LinkOf(pairs', nextLink) = <<>>
              /\ \A i \in DOMAIN pairs \ {tail, nextLink} :
                    /\ LinkOf(pairs', i) = LinkOf(pairs, i)
                    /\ pairs'[i].linkedIndex = pairs[i].linkedIndex]_vars

C17_PayloadCopied ==
  [][\A key \in Keys, valueType \in ValueTypes : \A value \in Payloads(valueType) :
       (HT_add(key, value, valueType) /\ ret' = OK)
       => \E i \in Occupied(pairs') :
             /\ pairs'[i].key = Ptr(key)
             /\ pairs'[i].value = Ptr(value)
             /\ Len(Deref(pairs'[i].value)) = HT_typeSize(valueType)
             /\ pairs'[i].valueType = valueType]_vars

(***************************************************************************)
(* C18: a cell that holds a key holds the same key after every later       *)
(* HT_add; an HT_add that occupies no new cell changes at most one cell,   *)
(* and of that cell only the payload and the tag.                          *)
(***************************************************************************)
SameButPayload(c, d) ==
  /\ c.key = d.key
  /\ c.linkedIndex = d.linkedIndex
  /\ c.hasLink = d.hasLink

C18_KeysStay ==
  [][AddStep
       => /\ \A i \in Occupied(pairs) : pairs'[i].key = pairs[i].key
          /\ Occupied(pairs') = Occupied(pairs)
               => /\ Cardinality({i \in DOMAIN pairs : pairs'[i] # pairs[i]}) <= 1
                  /\ \A i \in DOMAIN pairs : SameButPayload(pairs'[i], pairs[i])]_vars

\* A key placed in its home cell has since been updated: the cell holds the
\* whole block, which only the update path copies there.
C18_Witness ==
  /\ BetweenCalls
  /\ ret = OK
  /\ \E i \in Occupied(pairs) :
        /\ Home(Deref(pairs[i].key)) = i
        /\ pairs[i].value # NULL
        /\ Len(Deref(pairs[i].value)) = HT_typeSize(pairs[i].valueType)

(***************************************************************************)
(* C19: an HT_add call reads and writes only cells 0..maxNumItems-1.       *)
(***************************************************************************)
C19_IndicesInRange ==
  state = "live" => oob = {}

(***************************************************************************)
(* C20: a key stored by an HT_add that returned 0 is found by the lookup   *)
(* from its home cell in every later state.                                *)
(***************************************************************************)
C20_StoredKeysFound ==
  BetweenCalls =>
    \A key \in Keys :
      Holds(pairs, key) => HT_get(pairs, maxNumItems, key).found

(***************************************************************************)
(* C14: over new, put*, destroy the blocks the table frees are exactly the *)
(* key and value copies it allocated, each once: free is never called on   *)
(* another pointer (so nothing is freed for a cell that was never          *)
(* occupied), and after HT_freeTable no copy is left allocated.            *)
(***************************************************************************)
C14_ReleasesWhatItAllocated ==
  /\ wild = 0
  /\ (state = "freed" /\ ~crashed) => heap = 0



(***************************************************************************)
(* Vocabulary of the Rational claims.                                      *)
(***************************************************************************)
Abs(x) == IF x < 0 THEN 0 - x ELSE x

Divides(d, x) == x % d = 0

\* The greatest integer that divides both a and b, for a, b >= 0, not both 0.
GreatestCommonDivisor(a, b) ==
  CHOOSE d \in 1..(a + b) :
    /\ Divides(d, a) /\ Divides(d, b)
    /\ \A e \in 1..(a + b) : Divides(e, a) /\ Divides(e, b) => e <= d

\* What the claim says R_GCD(a, b) is.
GCD_Expected(a, b) ==
  IF a < 0 \/ b < 0 THEN -1
  ELSE IF a = 0 /\ b = 0 THEN -2
  ELSE IF a = 0 THEN b
  ELSE IF b = 0 THEN a
  ELSE GreatestCommonDivisor(a, b)

(***************************************************************************)
(* C15: for every top/bottom with bottom # 0, when R_reduce has returned   *)
(* the value of r is top/bottom, the greatest common divisor of |r.top|    *)
(* and r.bottom is 1 (so 0/x has become 0/1) and r.bottom is positive.     *)
(***************************************************************************)
C15_Reduced ==
  (rpc = "done" /\ bottom # 0)
    => /\ r.top * bottom = top * r.bottom
       /\ r.bottom > 0
       /\ GreatestCommonDivisor(Abs(r.top), r.bottom) = 1

====
